---- MODULE Spec2Model ----
(***************************************************************************)
(* A model of the sawp-pop3 parser (sawp-pop3/src/lib.rs).                 *)
(*                                                                         *)
(* Octets are natural numbers (their ASCII codes), buffers are sequences   *)
(* of octets.  The nom combinators the parser is built from are modelled   *)
(* as operators from an input buffer to a parser result                    *)
(*   [t |-> "Ok", rest, out] | [t |-> "Incomplete", needed]                *)
(*   | [t |-> "Error", code]                                               *)
(* and the two grammars, the dispatcher and the probe are composed from    *)
(* them in the order the source composes them.                             *)
(***************************************************************************)
EXTENDS Integers, Sequences, FiniteSets, TLC

VARIABLES input, sent, direction, bytes, msgs, last, status, probed

vars == <<input, sent, direction, bytes, msgs, last, status, probed>>

----------------------------------------------------------------------------
(* Constants of the crate *)

CRLF == <<13, 10>>

SPACE == <<32>>

CLIENT_COMMAND_MAX_LEN == 256

SERVER_RESP_FIRST_LINE_MAX_LEN == 512

----------------------------------------------------------------------------
(* Sequence helpers: slices of the input *)

Take(s, n) == SubSeq(s, 1, n)

Drop(s, n) == SubSeq(s, n + 1, Len(s))

StartsWith(s, t) == Len(s) >= Len(t) /\ Take(s, Len(t)) = t

(* octet classes used by the nom character parsers *)
Octets == 0..255

Alpha == (65..90) \cup (97..122)

Digit == 48..57

AlphaNumeric == Alpha \cup Digit

Blank == {32, 9}

NotLineEnding == Octets \ {13, 10}

is_alphanumeric(c) == c \in AlphaNumeric

----------------------------------------------------------------------------
(* Needed and parser results *)

NeededUnknown == [needed |-> "Unknown", n |-> 0]

NeededSize(n) == [needed |-> "Size", n |-> n]

(* Needed::new: a need of zero octets is Unknown *)
NeededNew(n) == IF n = 0 THEN NeededUnknown ELSE NeededSize(n)

POk(rest, out) == [t |-> "Ok", rest |-> rest, out |-> out]

PIncomplete(needed) == [t |-> "Incomplete", needed |-> needed]

PError(code) == [t |-> "Error", code |-> code]

----------------------------------------------------------------------------
(* nom primitives *)

(* iter().position(pred): index (from 1) of the first octet that is NOT in
   the class, 0 when there is none *)
PositionNot(s, class) ==
  IF \A k \in 1..Len(s) : s[k] \in class THEN 0
  ELSE CHOOSE k \in 1..Len(s) :
         s[k] \notin class /\ \A j \in 1..(k - 1) : s[j] \in class

(* Compare::compare for byte slices *)
Compare(s, t) ==
  LET m == IF Len(s) < Len(t) THEN Len(s) ELSE Len(t)
  IN  IF \E k \in 1..m : s[k] # t[k] THEN "Error"
      ELSE IF Len(s) >= Len(t) THEN "Ok"
      ELSE "Incomplete"

(* tag that asks for more octets whenever the input is shorter than the tag *)
tag_short_incomplete(t, i) ==
  IF Len(i) < Len(t) THEN PIncomplete(NeededNew(Len(t) - Len(i)))
  ELSE IF Compare(i, t) = "Ok" THEN POk(Drop(i, Len(t)), t)
  ELSE PError("Tag")

(* nom::bytes::streaming::tag *)
tag(t, i) ==
  LET c == Compare(i, t)
  IN  IF c = "Ok" THEN POk(Drop(i, Len(t)), t)
      ELSE IF c = "Incomplete" THEN PIncomplete(NeededNew(Len(t) - Len(i)))
      ELSE PError("Tag")

(* crlf of the complete parsers: a cut line ending is an error *)
crlf_complete(i) ==
  IF Compare(i, CRLF) = "Ok" THEN POk(Drop(i, 2), CRLF) ELSE PError("CrLf")

(* nom::character::streaming::crlf *)
crlf(i) ==
  LET c == Compare(i, CRLF)
  IN  IF c = "Ok" THEN POk(Drop(i, 2), CRLF)
      ELSE IF c = "Incomplete" THEN PIncomplete(NeededNew(2))
      ELSE PError("CrLf")

(* split_at_position1 of the streaming parsers *)
split_at_position1(i, class, code) ==
  LET p == PositionNot(i, class)
  IN  IF p = 1 THEN PError(code)
      ELSE IF p = 0 THEN PIncomplete(NeededNew(1))
      ELSE POk(Drop(i, p - 1), Take(i, p - 1))

(* split_at_position1_complete of the complete parsers *)
split_at_position1_complete(i, class, code) ==
  LET p == PositionNot(i, class)
  IN  IF p = 1 THEN PError(code)
      ELSE IF p = 0
           THEN IF Len(i) = 0 THEN PError(code) ELSE POk(<<>>, i)
      ELSE POk(Drop(i, p - 1), Take(i, p - 1))

(* nom::character::streaming::alpha1 *)
alpha1(i) == split_at_position1(i, Alpha, "Alpha")

(* nom::character::streaming::space1 *)
space1(i) == split_at_position1(i, Blank, "Space")

(* nom::character::complete::alphanumeric1 *)
alphanumeric1(i) == split_at_position1_complete(i, AlphaNumeric, "AlphaNumeric")

(* nom::character::streaming::char *)
char(c, i) ==
  IF Len(i) = 0 THEN PIncomplete(NeededNew(1))
  ELSE IF i[1] = c THEN POk(Drop(i, 1), <<c>>)
  ELSE PError("Char")

(* nom::combinator::eof *)
eof(i) == IF Len(i) = 0 THEN POk(i, <<>>) ELSE PError("Eof")

(* nom::character::streaming::not_line_ending *)
not_line_ending(i) ==
  LET p == PositionNot(i, NotLineEnding)
  IN  IF p = 0 THEN PIncomplete(NeededUnknown)
      ELSE IF i[p] = 13
           THEN LET c == Compare(Drop(i, p - 1), CRLF)
                IN  IF c = "Incomplete" THEN PIncomplete(NeededUnknown)
                    ELSE IF c = "Error" THEN PError("Tag")
                    ELSE POk(Drop(i, p - 1), Take(i, p - 1))
      ELSE POk(Drop(i, p - 1), Take(i, p - 1))

(* nom::combinator::opt applied to the result r of the inner parser on i *)
opt(r, i) == IF r.t = "Error" THEN POk(i, <<>>) ELSE r

(* nom::combinator::peek applied to the result r of the inner parser on i *)
peek(r, i) == IF r.t = "Ok" THEN POk(i, r.out) ELSE r

----------------------------------------------------------------------------
(* Data model *)

OK_TAG == <<43, 79, 75>>

ERR_TAG == <<45, 69, 82, 82>>

DOT_CRLF == <<46, 13, 10>>

(* the sixteen verbs, by name, with the octets Keyword::try_from matches and
   Display writes *)
VerbBytes ==
  [ QUIT |-> <<81, 85, 73, 84>>, STAT |-> <<83, 84, 65, 84>>,
    LIST |-> <<76, 73, 83, 84>>, RETR |-> <<82, 69, 84, 82>>,
    DELE |-> <<68, 69, 76, 69>>, NOOP |-> <<78, 79, 79, 80>>,
    RSET |-> <<82, 83, 69, 84>>, TOP  |-> <<84, 79, 80>>,
    UIDL |-> <<85, 73, 68, 76>>, USER |-> <<85, 83, 69, 82>>,
    PASS |-> <<80, 65, 83, 83>>, APOP |-> <<65, 80, 79, 80>>,
    CAPA |-> <<67, 65, 80, 65>>, STLS |-> <<83, 84, 76, 83>>,
    AUTH |-> <<65, 85, 84, 72>>, SASL |-> <<83, 65, 83, 76>> ]

Verbs == DOMAIN VerbBytes

Keyword(name, text) == [name |-> name, text |-> text]

(* sawp results: Ok((rest, Some(msg))), Err(Incomplete(needed)), Err(other) *)
Ok(rest, msg) == [kind |-> "Ok", rest |-> rest, msg |-> msg]

Incomplete(needed) == [kind |-> "Incomplete", needed |-> needed]

ParseErr(code) == [kind |-> "Parse", code |-> code]

(* the ? operator on a nom result that is not Ok: From<nom::Err> for Error *)
FromNom(r) ==
  IF r.t = "Incomplete" THEN Incomplete(r.needed) ELSE ParseErr(r.code)

(* impl TryFrom<&[u8]> for Keyword *)
Keyword_try_from(cmd) ==
  IF Len(cmd) = 0 THEN ParseErr("Empty Keyword")
  ELSE IF cmd[1] = 43 THEN ParseErr("Keyword is response")
  ELSE IF \E v \in Verbs : VerbBytes[v] = cmd
       THEN Ok(<<>>, Keyword(CHOOSE v \in Verbs : VerbBytes[v] = cmd, <<>>))
  ELSE IF \A k \in 1..Len(cmd) : is_alphanumeric(cmd[k])
       THEN Ok(<<>>, Keyword("Unknown", cmd))
  ELSE ParseErr("Invalid Keyword")

(* impl Display for Keyword *)
Keyword_fmt(keyword) ==
  IF keyword.name = "Unknown" THEN keyword.text ELSE VerbBytes[keyword.name]

(* impl TryFrom<&[u8]> for Status *)
Status_try_from(raw) ==
  IF raw = OK_TAG THEN Ok(<<>>, "OK")
  ELSE IF raw = ERR_TAG THEN Ok(<<>>, "ERR")
  ELSE ParseErr("Unknown Status")

Response(st, header, data) ==
  [type |-> "Response", status |-> st, header |-> header, data |-> data]

Command(keyword, args) ==
  [type |-> "Command", keyword |-> keyword, args |-> args]

Message(flags, inner) == [error_flags |-> flags, inner |-> inner]

----------------------------------------------------------------------------
(* Response grammar *)

(* server_response_too_long that does not count the separating space *)
server_response_too_long_no_space(status_length, payload_first_line_length) ==
  status_length + payload_first_line_length + Len(CRLF)
    > SERVER_RESP_FIRST_LINE_MAX_LEN

(* POP3::server_response_too_long *)
server_response_too_long(status_length, payload_first_line_length) ==
  status_length + Len(SPACE) + payload_first_line_length + Len(CRLF)
    > SERVER_RESP_FIRST_LINE_MAX_LEN

(* alt over two parsers: the second is tried when the first fails with Error *)
alt(a, b) == IF a.t = "Error" THEN b ELSE a

(* the second half of terminated(first, second): second's rest, first's output *)
keep_first(second, out) == IF second.t # "Ok" THEN second ELSE POk(second.rest, out)

(* terminated(first, opt(space1)) that leaves the blanks in the input *)
then_no_space(first) == first

(* terminated(first, opt(char(' '))): one space octet at most is consumed *)
then_one_space(first) ==
  IF first.t # "Ok" THEN first
  ELSE keep_first(opt(char(32, first.rest), first.rest), first.out)

(* terminated(first, opt(space1)), given the result of first *)
then_opt_space1(first) ==
  IF first.t # "Ok" THEN first
  ELSE keep_first(opt(space1(first.rest), first.rest), first.out)

(* terminated(first, crlf) and delimited(_, first, crlf), given the result of first *)
then_crlf(first) ==
  IF first.t # "Ok" THEN first ELSE keep_first(crlf(first.rest), first.out)

(* terminated(alt((tag("+OK"), tag("-ERR"))), opt(space1)) *)
status_token(i) == then_opt_space1(alt(tag(OK_TAG, i), tag(ERR_TAG, i)))

(* terminated(not_line_ending, crlf) *)
header_line(i) == then_crlf(not_line_ending(i))

(* map(.., |_| vec![]) *)
map_no_data(c) == IF c.t = "Ok" THEN POk(c.rest, <<>>) ELSE c

(* non_multiline that does not accept the end of the buffer *)
non_multiline_no_eof(i) ==
  map_no_data(alt(peek(tag(OK_TAG, i), i), peek(tag(ERR_TAG, i), i)))

(* non_multiline that does not look for a following "-ERR" *)
non_multiline_ok_only(i) ==
  map_no_data(alt(eof(i), peek(tag(OK_TAG, i), i)))

(* map(alt((eof, peek(tag("+OK")), peek(tag("-ERR")))), |_| vec![]) *)
non_multiline(i) ==
  map_no_data(alt(eof(i), alt(peek(tag(OK_TAG, i), i), peek(tag(ERR_TAG, i), i))))

(* delimited(opt(char('.')), not_line_ending, crlf), given the result of the opt *)
after_dot(d) == IF d.t # "Ok" THEN d ELSE then_crlf(not_line_ending(d.rest))

(* multiline that leaves a leading '.' on the line *)
multiline_keep_dot(i) == then_crlf(not_line_ending(i))

(* delimited(opt(char('.')), not_line_ending, crlf) *)
multiline(i) == after_dot(opt(char(46, i), i))

(* tag(".\r\n") *)
multiline_terminator(i) == tag(DOT_CRLF, i)

RECURSIVE many_till(_, _)

(* many_till: the line parser f has run on i *)
many_till_line(f, i, res) ==
  IF f.t # "Ok" THEN f
  ELSE IF Len(f.rest) = Len(i) THEN PError("ManyTill")
  ELSE many_till(f.rest, Append(res, f.out))

(* many_till: the terminator g has run on i *)
many_till_end(g, i, res) ==
  IF g.t = "Ok" THEN POk(g.rest, res)
  ELSE IF g.t = "Incomplete" THEN g
  ELSE many_till_line(multiline(i), i, res)

(* many_till(multiline, multiline_terminator), lines collected in res *)
many_till(i, res) == many_till_end(multiline_terminator(i), i, res)

(* map(many_till(..), |(lines, _)| lines) *)
multilines(i) == many_till(i, <<>>)

(* alt((non_multiline, multilines)) *)
response_data(i) == alt(non_multiline(i), multilines(i))

(* parse_response from the data on: flags and message *)
response_message(d, h, st, s) ==
  IF d.t # "Ok" THEN FromNom(d)
  ELSE Ok(d.rest,
          Message(IF server_response_too_long(Len(s.out), Len(h.out))
                  THEN {"ResponseTooLong"} ELSE {},
                  Response(st.msg, h.out, d.out)))

(* parse_response from the header line on *)
response_header(h, st, s) ==
  IF h.t # "Ok" THEN FromNom(h)
  ELSE response_message(response_data(h.rest), h, st, s)

(* parse_response from Status::try_from on *)
response_status(st, s) ==
  IF st.kind # "Ok" THEN st ELSE response_header(header_line(s.rest), st, s)

(* parse_response after the status token *)
response_token(s) ==
  IF s.t # "Ok" THEN FromNom(s) ELSE response_status(Status_try_from(s.out), s)

(* POP3::parse_response *)
parse_response(i) == response_token(status_token(i))

----------------------------------------------------------------------------
(* Command grammar *)

(* client_command_too_long that flags a command of exactly the maximum length *)
client_command_too_long_at_limit(command_length, client_payload_length) ==
  command_length + client_payload_length + Len(CRLF) >= CLIENT_COMMAND_MAX_LEN

(* POP3::client_command_too_long *)
client_command_too_long(command_length, client_payload_length) ==
  command_length + client_payload_length + Len(CRLF) > CLIENT_COMMAND_MAX_LEN

(* terminated(alpha1, opt(space1)) *)
keyword_token(i) == then_opt_space1(alpha1(i))

RECURSIVE separated_loop(_, _)

(* separated_list0: the item parser f has run after a separator; i is the
   input before that separator *)
separated_item(f, i, res) ==
  IF f.t = "Error" THEN POk(i, res)
  ELSE IF f.t = "Incomplete" THEN f
  ELSE separated_loop(f.rest, Append(res, f.out))

(* separated_list0: the separator s has run on i *)
separated_sep(s, i, res) ==
  IF s.t = "Error" THEN POk(i, res)
  ELSE IF s.t = "Incomplete" THEN s
  ELSE IF Len(s.rest) = Len(i) THEN PError("SeparatedList")
  ELSE separated_item(alphanumeric1(s.rest), i, res)

(* the loop of separated_list0(space1, alphanumeric1) after the first item *)
separated_loop(i, res) == separated_sep(space1(i), i, res)

(* separated_list0: the item parser f has run on i for the first item *)
separated_first(f, i) ==
  IF f.t = "Error" THEN POk(i, <<>>)
  ELSE IF f.t = "Incomplete" THEN f
  ELSE separated_loop(f.rest, <<f.out>>)

(* separated_list0(space1, alphanumeric1) *)
separated_list0(i) == separated_first(alphanumeric1(i), i)

(* the arms of the match on &keyword, for a keyword and args.len() *)
arity_match(k, n) ==
  IF k \in {"STAT", "NOOP", "RSET", "QUIT", "CAPA", "STLS"}
    THEN IF n # 0 THEN {"IncorrectArgumentNum"} ELSE {}
  ELSE IF k = "SASL"
    THEN IF n = 0 THEN {"IncorrectArgumentNum"} ELSE {}
  ELSE IF k \in {"LIST", "UIDL"}
    THEN IF n \in {0, 1} THEN {} ELSE {"IncorrectArgumentNum"}
  ELSE IF k \in {"RETR", "DELE", "USER", "PASS"}
    THEN IF n # 1 THEN {"IncorrectArgumentNum"} ELSE {}
  ELSE IF k = "AUTH"
    THEN IF n \in {1, 2} THEN {} ELSE {"IncorrectArgumentNum"}
  ELSE IF k \in {"TOP", "APOP"}
    THEN IF n # 2 THEN {"IncorrectArgumentNum"} ELSE {}
  ELSE {"UnknownKeyword"}

(* the arity match that counts one argument less than there are *)
arity_flags_miscounted(keyword, args) ==
  arity_match(keyword.name, IF Len(args) > 0 THEN Len(args) - 1 ELSE 0)

(* the arity match of parse_command: the flags it adds for keyword and args *)
arity_flags(keyword, args) == arity_match(keyword.name, Len(args))

(* args.iter().fold(0, |acc, c| acc + c.len() + 1) *)
RECURSIVE args_len(_)
args_len(args) ==
  IF Len(args) = 0 THEN 0
  ELSE args_len(Take(args, Len(args) - 1)) + Len(args[Len(args)]) + 1

(* the CommandTooLong flag of parse_command *)
length_flags(raw_keyword, args) ==
  IF client_command_too_long(Len(raw_keyword), args_len(args))
  THEN {"CommandTooLong"} ELSE {}

(* parse_command from the CRLF on: flags and message *)
command_message(e, a, kw, k) ==
  IF e.t # "Ok" THEN FromNom(e)
  ELSE Ok(e.rest,
          Message(arity_flags(kw.msg, a.out) \cup length_flags(k.out, a.out),
                  Command(kw.msg, a.out)))

(* parse_command from the argument list on *)
command_args(a, kw, k) ==
  IF a.t # "Ok" THEN FromNom(a) ELSE command_message(crlf(a.rest), a, kw, k)

(* parse_command from Keyword::try_from on *)
command_keyword(kw, k) ==
  IF kw.kind # "Ok" THEN kw ELSE command_args(separated_list0(k.rest), kw, k)

(* parse_command after the keyword token *)
command_token(k) ==
  IF k.t # "Ok" THEN FromNom(k) ELSE command_keyword(Keyword_try_from(k.out), k)

(* POP3::parse_command *)
parse_command(i) == command_token(keyword_token(i))

----------------------------------------------------------------------------
(* Dispatcher and probe *)

Directions == {"ToServer", "ToClient", "Unknown"}

(* the Unknown arm that only listens to the command grammar *)
parse_unknown_command_only(req, resp) == req

(* parse_unknown with the comparison of the two sizes turned around *)
parse_unknown_larger(req, resp) ==
  IF req.kind = "Ok" THEN req
  ELSE IF resp.kind = "Ok" THEN resp
  ELSE IF req.kind = "Incomplete" /\ resp.kind = "Incomplete"
       THEN IF req.needed.needed = "Unknown" THEN Incomplete(resp.needed)
            ELSE IF resp.needed.needed = "Unknown" THEN Incomplete(req.needed)
            ELSE IF req.needed.n > resp.needed.n THEN Incomplete(NeededSize(req.needed.n))
            ELSE Incomplete(resp.needed)
  ELSE IF req.kind = "Incomplete" THEN Incomplete(req.needed)
  ELSE IF resp.kind = "Incomplete" THEN Incomplete(resp.needed)
  ELSE req

(* the Direction::Unknown arm of parse: the match on the pair of results *)
parse_unknown(req, resp) ==
  IF req.kind = "Ok" THEN req
  ELSE IF resp.kind = "Ok" THEN resp
  ELSE IF req.kind = "Incomplete" /\ resp.kind = "Incomplete"
       THEN IF req.needed.needed = "Unknown" THEN Incomplete(resp.needed)
            ELSE IF resp.needed.needed = "Unknown" THEN Incomplete(req.needed)
            ELSE IF req.needed.n < resp.needed.n THEN Incomplete(NeededSize(req.needed.n))
            ELSE Incomplete(resp.needed)
  ELSE IF req.kind = "Incomplete" THEN Incomplete(req.needed)
  ELSE IF resp.kind = "Incomplete" THEN Incomplete(resp.needed)
  ELSE req

(* impl Parse for POP3: parse *)
parse(i, d) ==
  IF d = "ToServer" THEN parse_command(i)
  ELSE IF d = "ToClient" THEN parse_response(i)
  ELSE parse_unknown(parse_command(i), parse_response(i))

(* probe_status that does not look at the error flags of the message *)
probe_ignoring_flags(r) ==
  IF r.kind = "Ok" THEN "Recognized"
  ELSE IF r.kind = "Incomplete" THEN "Incomplete"
  ELSE "Unrecognized"

(* the match of probe on the result of parse *)
probe_status(r) ==
  IF r.kind = "Ok"
    THEN IF r.msg.error_flags = {} THEN "Recognized" ELSE "Unrecognized"
  ELSE IF r.kind = "Incomplete" THEN "Incomplete"
  ELSE "Unrecognized"

(* impl Probe for POP3: probe *)
probe(i, d) == probe_status(parse(i, d))

----------------------------------------------------------------------------
(* Bounds of the input space *)

MaxTokens == 3

MaxArgs == 3

MaxLines == 2

MaxMsgs == 3

MaxArgLen == 251

MaxHeaderLen == 508

----------------------------------------------------------------------------
(* What the peers write.  A written message is a record                   *)
(*   [form |-> "command" | "single" | "multi", wire, msg]                  *)
(* of its octets on the wire and the message it stands for.               *)

RECURSIVE Concat(_)
Concat(ss) == IF Len(ss) = 0 THEN <<>> ELSE ss[1] \o Concat(Tail(ss))

Repeat(c, n) == [k \in 1..n |-> c]

SeqsUpTo(S, n) == UNION {[1..k -> S] : k \in 0..n}

(* a command line as a client writes it: keyword, each argument after the
   separator sep, CRLF *)
WireCommand(kw, args, sep) ==
  kw \o Concat([k \in 1..Len(args) |-> sep \o args[k]]) \o CRLF

(* the arity table of RFC 1939 / RFC 2449 *)
ArityOK(v, n) ==
  IF v \in {"STAT", "NOOP", "RSET", "QUIT", "CAPA", "STLS"} THEN n = 0
  ELSE IF v = "SASL" THEN n >= 1
  ELSE IF v \in {"LIST", "UIDL"} THEN n \in {0, 1}
  ELSE IF v \in {"RETR", "DELE", "USER", "PASS"} THEN n = 1
  ELSE IF v = "AUTH" THEN n \in {1, 2}
  ELSE n = 2

(* the k-th argument a client sends: the digit k *)
Args(n) == [k \in 1..n |-> <<48 + k>>]

WrittenCommand(v, n) ==
  [ form |-> "command",
    wire |-> WireCommand(VerbBytes[v], Args(n), SPACE),
    msg  |-> Message({}, Command(Keyword(v, <<>>), Args(n))) ]

WrittenCommands ==
  {WrittenCommand(p[1], p[2]) :
     p \in {q \in Verbs \X (0..MaxArgs) : ArityOK(q[1], q[2])}}

(* dot-stuffing of a body line (RFC 1939 section 3) *)
Stuff(line) == IF Len(line) > 0 /\ line[1] = 46 THEN <<46>> \o line ELSE line

(* a multi-line body on the wire: every line stuffed and CRLF-terminated, then
   the terminating dot line *)
WireBody(lines) ==
  Concat([k \in 1..Len(lines) |-> Stuff(lines[k]) \o CRLF]) \o DOT_CRLF

StatusLine(st, sep, header) == st \o sep \o header \o CRLF

StatusName(st) == IF st = OK_TAG THEN "OK" ELSE "ERR"

WrittenSingle(st, sep, header) ==
  [ form |-> "single",
    wire |-> StatusLine(st, sep, header),
    msg  |-> Message({}, Response(StatusName(st), header, <<>>)) ]

WrittenMulti(st, sep, header, lines) ==
  [ form |-> "multi",
    wire |-> StatusLine(st, sep, header) \o WireBody(lines),
    msg  |-> Message({}, Response(StatusName(st), header, lines)) ]

(* separator and header of the status lines servers write *)
StatusTails == {<<<<>>, <<>>>>, <<SPACE, <<>>>>, <<SPACE, <<97>>>>, <<SPACE, <<50, 32, 50>>>>}

BodyLines == {<<>>, <<97>>, <<46>>, <<46, 97>>, OK_TAG, <<45, 69, 82, 82, 49>>}

WrittenSingles ==
  {WrittenSingle(st, t[1], t[2]) : st \in {OK_TAG, ERR_TAG}, t \in StatusTails}

WrittenMultis ==
  {WrittenMulti(st, t[1], t[2], ls) :
     st \in {OK_TAG, ERR_TAG}, t \in StatusTails, ls \in SeqsUpTo(BodyLines, MaxLines)}

Written == WrittenCommands \cup WrittenSingles \cup WrittenMultis

(* the messages of the longer streams *)
StreamMessages ==
  { WrittenCommand("QUIT", 0),
    WrittenCommand("DELE", 1),
    WrittenSingle(OK_TAG, SPACE, <<50, 32, 50>>),
    WrittenSingle(ERR_TAG, <<>>, <<>>),
    WrittenMulti(OK_TAG, SPACE, <<97>>, <<<<97>>, <<46, 97>>>>),
    WrittenMulti(OK_TAG, SPACE, <<>>, <<>>),
    WrittenMulti(OK_TAG, SPACE, <<97>>, <<OK_TAG>>) }

Streams ==
  {ms \in SeqsUpTo(StreamMessages, MaxMsgs) : Len(ms) # 1} \cup {<<m>> : m \in Written}

Wire(ms) == Concat([k \in 1..Len(ms) |-> ms[k].wire])

(* how much of a stream the transport has delivered: any part of a single
   message, all of a longer stream *)
Deliveries(ms) == IF Len(ms) = 1 THEN 0..Len(Wire(ms)) ELSE {Len(Wire(ms))}

----------------------------------------------------------------------------
(* Arbitrary octets: what a peer that does not speak POP3 may send *)

Tokens ==
  {OK_TAG, ERR_TAG, SPACE, CRLF, <<46>>, <<13>>, <<10>>, VerbBytes.QUIT, <<49>>}

TokenInputs == {Concat(ts) : ts \in SeqsUpTo(Tokens, MaxTokens)}

KeywordTokens == {VerbBytes[v] : v \in Verbs} \cup {<<88>>, <<84, 79, 80, 120>>}

(* command lines of any keyword and argument count, with one or two spaces
   before each argument *)
ShortCommands ==
  {WireCommand(kw, Args(n), sep) :
     kw \in KeywordTokens, n \in 0..MaxArgs, sep \in {SPACE, <<32, 32>>}}

(* command lines around the length limit *)
LongCommands ==
  {WireCommand(kw, <<Repeat(49, l)>> \o Repeat(<<97, 50>>, n), sep) :
     kw \in {VerbBytes.PASS, VerbBytes.TOP, <<88>>},
     l \in (MaxArgLen - 5)..MaxArgLen, n \in 0..1, sep \in {SPACE, <<32, 32>>}}

(* multi-line responses whose body lines are not (or more than) stuffed, or
   hold a bare LF or a CR without LF *)
RawLines ==
  {<<46, 43, 79, 75>>, <<46, 45, 69, 82, 82>>, <<46, 46, 46>>, <<97>>, <<46, 97>>,
   <<97, 10>>, <<97, 13, 98>>}

RawResponses ==
  {StatusLine(OK_TAG, SPACE, <<97>>)
     \o Concat([k \in 1..Len(ls) |-> ls[k] \o CRLF]) \o DOT_CRLF \o tail :
     ls \in SeqsUpTo(RawLines, MaxLines), tail \in {<<>>, OK_TAG, <<97>>}}

(* responses whose status line is around the length limit, alone or followed
   by a body *)
LongResponses ==
  {StatusLine(st, sep, Repeat(97, l)) \o body :
     st \in {OK_TAG, ERR_TAG}, sep \in {<<>>, SPACE, <<32, 32>>},
     l \in (MaxHeaderLen - 3)..MaxHeaderLen,
     body \in {<<>>, WireBody(<<<<98>>, <<98, 98>>>>)}}

(* status lines with no, one or several blanks (space, tab) after the status
   token *)
SpacedResponses ==
  {StatusLine(st, sep, header) \o tail :
     st \in {OK_TAG, ERR_TAG},
     sep \in {<<>>, SPACE, <<32, 32>>, <<9>>, <<32, 9, 32>>},
     header \in {<<>>, <<97>>, <<97, 32, 98>>, <<97, 32>>},
     tail \in {<<>>, DOT_CRLF}}

(* buffers that begin like neither a command nor a response, or like a cut
   status token *)
Heads ==
  {<<43>>, <<43, 79>>, <<43, 79, 120>>, <<43, 83>>, <<43, 111, 107>>,
   <<45>>, <<45, 69, 82>>, <<45, 69, 82, 120>>, <<1, 2>>, <<48>>, <<95>>,
   <<81, 49>>, <<113>>}

HeadInputs == {h \o tail : h \in Heads, tail \in {<<>>, <<32, 87, 13, 10>>, CRLF}}

OctetInputs ==
  TokenInputs \cup ShortCommands \cup LongCommands \cup RawResponses
    \cup LongResponses \cup SpacedResponses \cup HeadInputs

----------------------------------------------------------------------------
(* The caller: one parse and one probe of the input, then the loop of the
   crate example over the unconsumed tail *)

None == [kind |-> "None"]

Init ==
  /\ \/ /\ input \in OctetInputs
        /\ sent = [known |-> FALSE, msgs |-> <<>>]
     \/ \E ms \in Streams : \E k \in Deliveries(ms) :
          /\ input = SubSeq(Wire(ms), 1, k)
          /\ sent = [known |-> TRUE, msgs |-> ms]
  /\ direction \in Directions
  /\ bytes = input
  /\ msgs = <<>>
  /\ last = None
  /\ probed = "None"
  /\ status = "parse"

(* pop3.parse(input, direction) *)
Parse ==
  /\ status = "parse"
  /\ last' = parse(input, direction)
  /\ status' = "probe"
  /\ UNCHANGED <<input, sent, direction, bytes, msgs, probed>>

(* pop3.probe(input, direction) *)
Probe ==
  /\ status = "probe"
  /\ probed' = probe(input, direction)
  /\ status' = "loop"
  /\ UNCHANGED <<input, sent, direction, bytes, msgs, last>>

(* the match of parse_bytes that does not replace bytes by the rest *)
parse_bytes_match_keep(r) ==
  /\ last' = r
  /\ bytes' = bytes
  /\ msgs' = IF r.kind = "Ok" THEN Append(msgs, r.msg) ELSE msgs
  /\ status' = IF r.kind = "Ok" THEN "loop" ELSE "err"

(* the match of parse_bytes on the result r of parse *)
parse_bytes_match(r) ==
  /\ last' = r
  /\ bytes' = IF r.kind = "Ok" THEN r.rest ELSE bytes
  /\ msgs' = IF r.kind = "Ok" THEN Append(msgs, r.msg) ELSE msgs
  /\ status' = IF r.kind = "Ok" THEN "loop" ELSE "err"

(* one iteration of the while loop of parse_bytes *)
ParseBytesStep ==
  /\ status = "loop"
  /\ Len(bytes) > 0
  /\ parse_bytes_match(parse(bytes, direction))
  /\ UNCHANGED <<input, sent, direction, probed>>

(* the loop ends: Ok(bytes) *)
ParseBytesExit ==
  /\ status = "loop"
  /\ Len(bytes) = 0
  /\ status' = "done"
  /\ UNCHANGED <<input, sent, direction, bytes, msgs, last, probed>>

Next == Parse \/ Probe \/ ParseBytesStep \/ ParseBytesExit

Spec == Init /\ [][Next]_vars

(* a call of parse or probe is due: the caller stands before one *)
CallDue ==
  status \in {"parse", "probe"} \/ (status = "loop" /\ Len(bytes) > 0)

(* the calls of parse and probe the caller makes *)
Calls == Parse \/ Probe \/ ParseBytesStep

(* weak fairness of Calls.  Calls is enabled exactly when CallDue holds (parse
   and probe return on every buffer), so ENABLED <<Calls>>_vars is written as
   CallDue *)
CallsMade == []<>(~CallDue) \/ []<><<Calls>>_vars

(* the caller runs its straight-line code and its loop to the end: a call
   that is due is made, and the loop is left when the buffer is empty *)
FairSpec ==
  Spec /\ CallsMade /\ WF_vars(ParseBytesExit)

----------------------------------------------------------------------------
(* C1: the policy of the dispatcher under Direction::Unknown *)

Smaller(a, b) == IF a < b THEN a ELSE b

MergedNeed(a, b) ==
  IF a.needed = "Unknown" /\ b.needed = "Unknown" THEN NeededUnknown
  ELSE IF a.needed = "Unknown" THEN b
  ELSE IF b.needed = "Unknown" THEN a
  ELSE NeededSize(Smaller(a.n, b.n))

UnknownPolicy(c, r) ==
  IF c.kind = "Ok" THEN Ok(c.rest, c.msg)
  ELSE IF r.kind = "Ok" THEN Ok(r.rest, r.msg)
  ELSE IF c.kind = "Incomplete" /\ r.kind = "Incomplete"
       THEN Incomplete(MergedNeed(c.needed, r.needed))
  ELSE IF c.kind = "Incomplete" THEN Incomplete(c.needed)
  ELSE IF r.kind = "Incomplete" THEN Incomplete(r.needed)
  ELSE c

(* the outcomes a grammar can hand to the dispatcher *)
GrammarOutcomes ==
  {Ok(<<>>, Message({}, Command(Keyword("QUIT", <<>>), <<>>))),
   Ok(<<43>>, Message({}, Response("OK", <<>>, <<>>))),
   ParseErr("Alpha"), ParseErr("Tag")}
  \cup {Incomplete(NeededNew(n)) : n \in 0..3}

(* C1: whenever parse was called with Direction::Unknown, its result is the
   one the ordered policy (command success, response success, merged need of
   two Incompletes, the one Incomplete, the command grammar's hard error)
   gives for the outcomes of the two grammars on the same buffer; and the
   dispatcher follows that policy on every pair of grammar outcomes. *)
C1_UnknownDispatchPolicy ==
  /\ (status = "probe" /\ direction = "Unknown")
       => last = UnknownPolicy(parse_command(input), parse_response(input))
  /\ (status = "probe" /\ direction = "Unknown")
       => \A c \in GrammarOutcomes : \A r \in GrammarOutcomes :
            parse_unknown(c, r) = UnknownPolicy(c, r)

(* both grammars reported Incomplete with different sizes and the smaller
   was returned *)
C1_Witness ==
  /\ status = "probe"
  /\ direction = "Unknown"
  /\ parse_command(input).kind = "Incomplete"
  /\ parse_response(input).kind = "Incomplete"
  /\ parse_command(input).needed.n < parse_response(input).needed.n
  /\ last = Incomplete(parse_command(input).needed)

----------------------------------------------------------------------------
(* C2: probe classifies by the outcome of parse *)

(* C2: once probe has answered, the answer is Incomplete exactly when parse of
   the same buffer and direction is Incomplete, Recognized exactly when parse
   succeeds with a message that carries no error flag, and Unrecognized in
   every other case. *)
C2_ProbeFollowsParse ==
  status \in {"loop", "done", "err"} =>
    LET r == parse(input, direction)
    IN  /\ (probed = "Incomplete") <=> (r.kind = "Incomplete")
        /\ (probed = "Recognized") <=> (r.kind = "Ok" /\ r.msg.error_flags = {})
        /\ (probed = "Unrecognized") <=>
             ((r.kind = "Ok" /\ r.msg.error_flags # {}) \/ r.kind = "Parse")

(* probe answered Unrecognized for a buffer that parses with an error flag *)
C2_Witness ==
  /\ status = "loop"
  /\ probed = "Unrecognized"
  /\ parse(input, direction).kind = "Ok"
  /\ parse(input, direction).msg.error_flags # {}

----------------------------------------------------------------------------
(* C3: Incomplete(Size(n)) and the octets that arrive next *)

MaxExtension == 2

(* the octets the transport may deliver next: LF, CR, space, '.', '1', 'A', '+' *)
ExtensionOctets == {10, 13, 32, 46, 49, 65, 43}

Extensions == SeqsUpTo(ExtensionOctets, MaxExtension)

(* C3: when parse answered Incomplete(Size(n)) for the buffer, the buffer
   extended by fewer than n octets does not parse to a message: n more octets
   are needed before a parse can succeed. *)
C3_NoSuccessBeforeNeeded ==
  (status = "probe" /\ last.kind = "Incomplete" /\ last.needed.needed = "Size") =>
    \A x \in Extensions :
      Len(x) < last.needed.n => parse(input \o x, direction).kind # "Ok"

----------------------------------------------------------------------------
(* C4: a buffer of k written messages, parsed in a loop *)

(* the whole stream has been delivered *)
Delivered == sent.known /\ Len(input) = Len(Wire(sent.msgs))

(* ToServer for commands, ToClient for responses, Unknown for any mix *)
DirectionFits ==
  \/ direction = "Unknown"
  \/ direction = "ToServer" /\ \A k \in 1..Len(sent.msgs) : sent.msgs[k].form = "command"
  \/ direction = "ToClient" /\ \A k \in 1..Len(sent.msgs) : sent.msgs[k].form # "command"

(* the messages the peers wrote *)
WrittenMsgs == [k \in 1..Len(sent.msgs) |-> sent.msgs[k].msg]

(* the line begins with +OK or -ERR *)
LooksLikeStatus(line) == StartsWith(line, OK_TAG) \/ StartsWith(line, ERR_TAG)

(* the body of the k-th written message does not begin with a line that
   looks like a status line *)
BodyDistinct(ms, k) ==
  (ms[k].form = "multi" /\ Len(ms[k].msg.inner.data) > 0)
    => ~LooksLikeStatus(ms[k].msg.inner.data[1])

(* no single-line response is directly followed by a command *)
SingleThenResponse(ms, k) ==
  (ms[k].form = "single" /\ k < Len(ms)) => ms[k + 1].form # "command"

(* the loop over a delivered stream never stops on Incomplete or on a hard
   error, and ends with exactly the written messages *)
LoopYieldsWritten ==
  /\ status # "err"
  /\ Len(msgs) <= Len(sent.msgs)
  /\ status = "done" => msgs = WrittenMsgs

(* C4 as stated: for every buffer that is the concatenation of k well-formed
   messages, parsing the unconsumed tail repeatedly with the fitting direction
   returns exactly the k messages in order and ends with an empty tail, no
   call returning Incomplete or a hard error. *)
C4_IteratedParse ==
  (Delivered /\ DirectionFits) => LoopYieldsWritten

(* C4, amended: the same, for streams in which no multi-line body begins with
   a line that starts with +OK or -ERR and no single-line response is directly
   followed by a command. *)
C4_IteratedParseSeparable ==
  (/\ Delivered
   /\ DirectionFits
   /\ \A k \in 1..Len(sent.msgs) :
        BodyDistinct(sent.msgs, k) /\ SingleThenResponse(sent.msgs, k))
    => LoopYieldsWritten

(* the loop finished on a mixed stream of a command, a single-line response
   and a multi-line response with a stuffed line, and returned the three *)
C4_Witness ==
  /\ status = "done"
  /\ Delivered
  /\ direction = "Unknown"
  /\ Len(sent.msgs) = 3
  /\ sent.msgs[1].form = "command"
  /\ sent.msgs[2].form = "single"
  /\ sent.msgs[3].form = "multi"
  /\ Len(sent.msgs[3].msg.inner.data) = 2
  /\ msgs = WrittenMsgs
  /\ bytes = <<>>

----------------------------------------------------------------------------
(* C5: undoing byte-stuffing against dot-stuffing *)

(* the server wrote one multi-line response, all of it has arrived and parse
   was called with ToClient *)
ParsedOneMulti ==
  /\ status = "probe"
  /\ direction = "ToClient"
  /\ Delivered
  /\ Len(sent.msgs) = 1
  /\ sent.msgs[1].form = "multi"

(* the body lines L the server stuffed *)
WrittenBody == sent.msgs[1].msg.inner.data

(* parse succeeded with data equal to L and an empty rest *)
BodyRecovered ==
  /\ last.kind = "Ok"
  /\ last.rest = <<>>
  /\ last.msg.inner.type = "Response"
  /\ last.msg.inner.data = WrittenBody

(* C5 as stated: for every status line and every sequence L of body lines,
   parse(status line ++ stuffed(L) ++ ".\r\n", ToClient) succeeds with data
   equal to L and an empty rest. *)
C5_UnstuffLeftInverse == ParsedOneMulti => BodyRecovered

(* C5, amended: the same, for every L that is empty or whose first line does
   not begin with +OK or -ERR. *)
C5_UnstuffLeftInverseDistinct ==
  (ParsedOneMulti /\ BodyDistinct(sent.msgs, 1)) => BodyRecovered

(* a body of two lines, one of them beginning with '.', came back as written *)
C5_Witness ==
  /\ ParsedOneMulti
  /\ Len(WrittenBody) = 2
  /\ \E k \in 1..2 : StartsWith(WrittenBody[k], <<46>>)
  /\ BodyRecovered

----------------------------------------------------------------------------
(* C6: serialising a parsed message and parsing it again *)

(* the canonical wire form of a message: keyword text (Display for Keyword),
   a space and the argument for each argument, CRLF; or status token, one
   space, header, CRLF and, when there is data, the stuffed body and the
   terminating dot line *)
Serialize(m) ==
  IF m.inner.type = "Command"
    THEN WireCommand(Keyword_fmt(m.inner.keyword), m.inner.args, SPACE)
  ELSE StatusLine(IF m.inner.status = "OK" THEN OK_TAG ELSE ERR_TAG,
                  SPACE, m.inner.header)
         \o (IF Len(m.inner.data) > 0 THEN WireBody(m.inner.data) ELSE <<>>)

(* parse has returned a message without error flags *)
ParsedClean ==
  /\ status = "probe"
  /\ last.kind = "Ok"
  /\ last.msg.error_flags = {}

(* the serialised message parses, in the same direction, to the same message
   with an empty rest *)
RoundTrip == parse(Serialize(last.msg), direction) = Ok(<<>>, last.msg)

(* the message is a response whose first data line begins with +OK or -ERR *)
StatusLikeData(m) ==
  /\ m.inner.type = "Response"
  /\ Len(m.inner.data) > 0
  /\ LooksLikeStatus(m.inner.data[1])

(* C6 as stated: for every buffer B and direction d, if parse(B, d) succeeds
   with message m and zero error flags, parsing the canonical wire form of m
   in direction d yields the same message m with an empty rest. *)
C6_RoundTrip == ParsedClean => RoundTrip

(* C6, amended: the same, for every m that is not a response whose first
   data line begins with +OK or -ERR. *)
C6_RoundTripDistinct == (ParsedClean /\ ~StatusLikeData(last.msg)) => RoundTrip

(* a response with a header and two data lines, the second beginning with
   '.', read from a buffer that is not in canonical form, went round *)
C6_Witness ==
  /\ ParsedClean
  /\ last.msg.inner.type = "Response"
  /\ Len(last.msg.inner.header) > 0
  /\ Len(last.msg.inner.data) = 2
  /\ StartsWith(last.msg.inner.data[2], <<46>>)
  /\ Serialize(last.msg) # input
  /\ RoundTrip

----------------------------------------------------------------------------
(* C7: proper prefixes of a legal message *)

(* one legal message was written, only a proper prefix of it has arrived and
   parse was called in the matching direction *)
ParsedPrefix ==
  /\ status = "probe"
  /\ sent.known
  /\ Len(sent.msgs) = 1
  /\ Len(input) < Len(sent.msgs[1].wire)
  /\ direction = (IF sent.msgs[1].form = "command" THEN "ToServer" ELSE "ToClient")

(* the number of octets of the status line of a written response *)
StatusLineLen(w) ==
  IF w.form = "multi" THEN Len(w.wire) - Len(WireBody(w.msg.inner.data))
  ELSE Len(w.wire)

(* the prefix holds the whole status line of a multi-line response, followed
   by nothing or by octets that begin with +OK or -ERR *)
HoldsStatusLine ==
  /\ sent.msgs[1].form = "multi"
  /\ Len(input) >= StatusLineLen(sent.msgs[1])
  /\ \/ Len(input) = StatusLineLen(sent.msgs[1])
     \/ LooksLikeStatus(Drop(input, StatusLineLen(sent.msgs[1])))

(* parse returned the status line as a completed single-line response *)
ReturnedStatusLine ==
  /\ last.kind = "Ok"
  /\ last.rest = Drop(input, StatusLineLen(sent.msgs[1]))
  /\ last.msg.inner.type = "Response"
  /\ last.msg.inner.status = sent.msgs[1].msg.inner.status
  /\ last.msg.inner.header = sent.msgs[1].msg.inner.header
  /\ last.msg.inner.data = <<>>

(* C7 as stated: for every legal message M and every proper prefix P of M,
   the empty buffer included, parse(P) in the matching direction returns
   Incomplete, never a hard Parse error and never a completed message. *)
C7_PrefixIncomplete == ParsedPrefix => last.kind = "Incomplete"

(* C7, amended: parse(P) never returns a hard Parse error, and it returns
   Incomplete unless M is a multi-line response and P holds its whole status
   line followed by nothing or by octets that begin with +OK or -ERR; then it
   returns the status line as a completed single-line response. *)
C7_PrefixIncompleteOrStatusLine ==
  ParsedPrefix =>
    /\ last.kind # "Parse"
    /\ ~HoldsStatusLine => last.kind = "Incomplete"
    /\ HoldsStatusLine => ReturnedStatusLine

(* a multi-line response cut inside its body: Incomplete *)
C7_Witness ==
  /\ ParsedPrefix
  /\ sent.msgs[1].form = "multi"
  /\ Len(input) > StatusLineLen(sent.msgs[1]) + 2
  /\ last.kind = "Incomplete"

----------------------------------------------------------------------------
(* C8: single-line or multi-line, decided after the status line *)

(* status token, header and CRLF of parse_response, run on the buffer *)
StatusLineOf(i) ==
  IF status_token(i).t = "Ok" THEN header_line(status_token(i).rest)
  ELSE status_token(i)

(* parse was called with ToClient and the status line was consumed *)
StatusLineConsumed ==
  /\ status = "probe"
  /\ direction = "ToClient"
  /\ StatusLineOf(input).t = "Ok"

(* the octets after the status line *)
Remaining == StatusLineOf(input).rest

(* a line equal to exactly ".\r\n" starts at octet k of r *)
TerminatorAt(r, k) ==
  /\ k + 2 <= Len(r)
  /\ SubSeq(r, k, k + 2) = DOT_CRLF
  /\ k = 1 \/ (k >= 3 /\ SubSeq(r, k - 2, k - 1) = CRLF)

TerminatorArrived(r) == \E k \in 1..Len(r) : TerminatorAt(r, k)

FirstTerminator(r) ==
  CHOOSE k \in 1..Len(r) :
    TerminatorAt(r, k) /\ \A j \in 1..(k - 1) : ~TerminatorAt(r, j)

(* r holds a bare LF or a CR followed by an octet other than LF *)
BadLineEnding(r) ==
  \E k \in 1..Len(r) :
    \/ r[k] = 10 /\ (k = 1 \/ r[k - 1] # 13)
    \/ r[k] = 13 /\ k < Len(r) /\ r[k + 1] # 10

(* the lines of a body made of CRLF-terminated lines *)
RECURSIVE SplitLines(_)
SplitLines(b) ==
  IF Len(b) = 0 THEN <<>>
  ELSE LET p == CHOOSE k \in 1..Len(b) : b[k] = 13 /\ \A j \in 1..(k - 1) : b[j] # 13
       IN  <<Take(b, p - 1)>> \o SplitLines(Drop(b, p + 1))

Unstuff(line) == IF StartsWith(line, <<46>>) THEN Tail(line) ELSE line

(* the single-line half of C8 *)
SingleLineDecision ==
  (Remaining = <<>> \/ LooksLikeStatus(Remaining)) =>
    /\ last.kind = "Ok"
    /\ last.msg.inner.type = "Response"
    /\ last.msg.inner.data = <<>>
    /\ last.rest = Remaining

(* C8 as stated: once the status line is consumed, remaining octets that are
   empty or begin with +OK or -ERR give a single-line response with data = []
   and exactly those octets as rest; otherwise body lines are read until the
   line ".\r\n" is consumed, and Incomplete is returned if that terminator has
   not arrived. *)
C8_SingleOrMultiLine ==
  StatusLineConsumed =>
    /\ SingleLineDecision
    /\ ~(Remaining = <<>> \/ LooksLikeStatus(Remaining)) =>
         /\ last.kind = "Ok" => TerminatorArrived(Remaining)
         /\ ~TerminatorArrived(Remaining) => last.kind = "Incomplete"

(* the body lines before the first terminator *)
BodyBefore(r) == Take(r, FirstTerminator(r) - 1)

(* C8, amended: the single-line half as stated; otherwise body lines are read
   until the line ".\r\n" is consumed and the parse succeeds with the unstuffed
   lines as data and the octets after the terminator as rest; Incomplete is
   returned if the terminator has not arrived and the octets so far hold no
   bare LF and no CR followed by another octet than LF; a bare LF or such a CR
   before the terminator gives a hard Parse error. *)
C8_SingleOrMultiLineWellFormed ==
  StatusLineConsumed =>
    /\ SingleLineDecision
    /\ ~(Remaining = <<>> \/ LooksLikeStatus(Remaining)) =>
         IF TerminatorArrived(Remaining) /\ ~BadLineEnding(BodyBefore(Remaining))
           THEN /\ last.kind = "Ok"
                /\ last.rest = Drop(Remaining, FirstTerminator(Remaining) + 2)
                /\ last.msg.inner.data =
                     [k \in 1..Len(SplitLines(BodyBefore(Remaining))) |->
                        Unstuff(SplitLines(BodyBefore(Remaining))[k])]
         ELSE IF ~TerminatorArrived(Remaining) /\ ~BadLineEnding(Remaining)
           THEN last.kind = "Incomplete"
         ELSE last.kind = "Parse"

(* only the status line of a multi-line response has arrived and it came back
   as a completed single-line response *)
C8_Witness ==
  /\ StatusLineConsumed
  /\ sent.known
  /\ Len(sent.msgs) = 1
  /\ sent.msgs[1].form = "multi"
  /\ Len(sent.msgs[1].msg.inner.data) > 0
  /\ Remaining = <<>>
  /\ last.kind = "Ok"
  /\ last.msg.inner.data = <<>>

----------------------------------------------------------------------------
(* C9: IncorrectArgumentNum and the arity table *)

(* parse has returned a command *)
ParsedCommand ==
  /\ status = "probe"
  /\ last.kind = "Ok"
  /\ last.msg.inner.type = "Command"

(* C9: for every successfully parsed command IncorrectArgumentNum is set
   exactly when the keyword is a known verb whose argument count violates the
   arity table; a command with an Unknown keyword never carries it; and a
   command line with any number of arguments parses without a hard error. *)
C9_ArityFlag ==
  /\ ParsedCommand =>
       /\ ("IncorrectArgumentNum" \in last.msg.error_flags) <=>
            /\ last.msg.inner.keyword.name \in Verbs
            /\ ~ArityOK(last.msg.inner.keyword.name, Len(last.msg.inner.args))
       /\ last.msg.inner.keyword.name = "Unknown" =>
            "IncorrectArgumentNum" \notin last.msg.error_flags
  /\ (status = "probe" /\ direction = "ToServer" /\ input \in ShortCommands) =>
       last.kind = "Ok"

(* AUTH with three arguments parsed to a command that carries the flag *)
C9_Witness ==
  /\ ParsedCommand
  /\ last.msg.inner.keyword.name = "AUTH"
  /\ Len(last.msg.inner.args) = 3
  /\ "IncorrectArgumentNum" \in last.msg.error_flags

----------------------------------------------------------------------------
(* C10: CommandTooLong and the counted length *)

(* sum over all arguments of len(argument) + 1 *)
RECURSIVE SeparatedLen(_)
SeparatedLen(args) ==
  IF Len(args) = 0 THEN 0 ELSE Len(Head(args)) + 1 + SeparatedLen(Tail(args))

(* len(keyword token) + sum over all arguments of (len(argument) + 1) + 2 *)
CountedLen(c) == Len(Keyword_fmt(c.keyword)) + SeparatedLen(c.args) + 2

(* C10: for every successfully parsed command CommandTooLong is set exactly
   when the counted length, which adds one separator octet per argument
   whatever the wire held, is greater than 256. *)
C10_CommandTooLong ==
  ParsedCommand =>
    (("CommandTooLong" \in last.msg.error_flags)
       <=> CountedLen(last.msg.inner) > 256)

(* a command of 257 octets on the wire, two spaces before its argument, counts
   exactly 256 and carries no CommandTooLong *)
C10_Witness ==
  /\ ParsedCommand
  /\ last.rest = <<>>
  /\ Len(input) = 257
  /\ CountedLen(last.msg.inner) = 256
  /\ "CommandTooLong" \notin last.msg.error_flags

----------------------------------------------------------------------------
(* C11: ResponseTooLong and the counted length of the status line *)

(* parse has returned a response *)
ParsedResponse ==
  /\ status = "probe"
  /\ last.kind = "Ok"
  /\ last.msg.inner.type = "Response"

(* len(status token) + 1 + len(header) + 2, the status token being +OK (3) or
   -ERR (4) *)
CountedStatusLine(r) ==
  (IF r.status = "OK" THEN 3 ELSE 4) + 1 + Len(r.header) + 2

(* C11: for every successfully parsed response ResponseTooLong is set exactly
   when len(status token) + 1 + len(header) + 2 is greater than 512, whatever
   data lines the response has; no other flag is ever set on a response. *)
C11_ResponseTooLong ==
  ParsedResponse =>
    /\ ("ResponseTooLong" \in last.msg.error_flags)
         <=> CountedStatusLine(last.msg.inner) > 512
    /\ last.msg.error_flags \subseteq {"ResponseTooLong"}

(* a multi-line response of more than 512 octets whose status line counts
   exactly 512 carries no flag *)
C11_Witness ==
  /\ ParsedResponse
  /\ Len(last.msg.inner.data) = 2
  /\ Len(input) > 512
  /\ CountedStatusLine(last.msg.inner) = 512
  /\ last.msg.error_flags = {}

----------------------------------------------------------------------------
(* C12: the header of a response and the blanks after the status token *)

(* the status token the response was read from *)
StatusToken(r) == IF r.status = "OK" THEN OK_TAG ELSE ERR_TAG

(* the octets of the buffer's first line, its CRLF excluded *)
FirstLine(i) ==
  Take(i, (CHOOSE k \in 1..Len(i) : i[k] = 13 /\ \A j \in 1..(k - 1) : i[j] # 13) - 1)

(* what follows the status token on the status line *)
AfterToken == Drop(FirstLine(input), Len(StatusToken(last.msg.inner)))

(* s without one leading space octet, when it has one *)
SkipOneSpace(s) == IF StartsWith(s, SPACE) THEN Tail(s) ELSE s

(* s without its leading space and tab octets *)
RECURSIVE SkipBlanks(_)
SkipBlanks(s) ==
  IF Len(s) > 0 /\ Head(s) \in {32, 9} THEN SkipBlanks(Tail(s)) ELSE s

(* C12 as stated: for every successfully parsed response, header is every
   octet of the status line that follows the status token and one space
   octet, up to but excluding the CRLF. *)
C12_HeaderAfterOneSpace ==
  ParsedResponse => last.msg.inner.header = SkipOneSpace(AfterToken)

(* C12, amended: header is every octet of the status line that follows the
   status token and all the space and tab octets after it, up to but
   excluding the CRLF. *)
C12_HeaderAfterBlanks ==
  ParsedResponse => last.msg.inner.header = SkipBlanks(AfterToken)

(* a status line with two spaces after the status token gave a header that
   does not begin with a space *)
C12_Witness ==
  /\ ParsedResponse
  /\ StartsWith(AfterToken, <<32, 32, 97>>)
  /\ last.msg.inner.header = <<97>>

----------------------------------------------------------------------------
(* C13: grammar violations at the head of the buffer *)

AsciiAlphabetic == (65..90) \cup (97..122)

(* p is a proper prefix of t *)
ProperPrefixOf(p, t) == Len(p) < Len(t) /\ StartsWith(t, p)

(* the buffer neither begins with +OK or -ERR nor is a proper prefix of one *)
NoStatusHead(i) ==
  /\ ~LooksLikeStatus(i)
  /\ ~ProperPrefixOf(i, OK_TAG)
  /\ ~ProperPrefixOf(i, ERR_TAG)

(* C13: for every non-empty buffer whose first octet is not ASCII alphabetic
   parse(B, ToServer) is a hard Parse error, and for every non-empty buffer
   that neither begins with +OK or -ERR nor is a proper prefix of +OK or -ERR
   parse(B, ToClient) is a hard Parse error: never Incomplete, never a
   message. *)
C13_HardErrorAtHead ==
  (status = "probe" /\ Len(input) > 0) =>
    /\ (direction = "ToServer" /\ input[1] \notin AsciiAlphabetic)
         => last.kind = "Parse"
    /\ (direction = "ToClient" /\ NoStatusHead(input)) => last.kind = "Parse"

(* a buffer shorter than a status token that begins with '+' but is no prefix
   of +OK was rejected as a response *)
C13_Witness ==
  /\ status = "probe"
  /\ direction = "ToClient"
  /\ Len(input) = 2
  /\ input[1] = 43
  /\ NoStatusHead(input)
  /\ last.kind = "Parse"

----------------------------------------------------------------------------
(* C14: dispatch under Unknown and dispatch by first octet *)

(* same message and rest, or same error kind and same needed value *)
SameOutcome(a, b) ==
  /\ a.kind = b.kind
  /\ a.kind = "Ok" => (a.msg = b.msg /\ a.rest = b.rest)
  /\ a.kind = "Incomplete" => a.needed = b.needed

(* C14: no buffer is accepted by both grammars; and for every non-empty
   buffer parse(B, Unknown) has the outcome of parse(B, ToServer) when the
   first octet is ASCII alphabetic, the outcome of parse(B, ToClient) when it
   is '+' or '-', and is a hard Parse error for every other first octet. *)
C14_DispatchByFirstOctet ==
  (status = "probe" /\ direction = "Unknown") =>
    /\ ~(parse_command(input).kind = "Ok" /\ parse_response(input).kind = "Ok")
    /\ Len(input) > 0 =>
         IF input[1] \in AsciiAlphabetic
           THEN SameOutcome(last, parse(input, "ToServer"))
         ELSE IF input[1] \in {43, 45}
           THEN SameOutcome(last, parse(input, "ToClient"))
         ELSE last.kind = "Parse"

(* a cut -ERR under Unknown: the Incomplete of the response grammar, although
   the command grammar failed *)
C14_Witness ==
  /\ status = "probe"
  /\ direction = "Unknown"
  /\ Len(input) > 0
  /\ input[1] = 45
  /\ parse_command(input).kind = "Parse"
  /\ last.kind = "Incomplete"
  /\ last = parse(input, "ToClient")

----------------------------------------------------------------------------
(* C15: every success consumes, and the loop of parse_bytes ends *)

(* r is a proper suffix of b *)
ProperSuffixOf(r, b) == Len(r) < Len(b) /\ r = Drop(b, Len(b) - Len(r))

(* a success on the buffer the loop holds carries a message and a rest that
   is a proper suffix of that buffer *)
SuccessConsumes ==
  (status = "loop" /\ Len(bytes) > 0 /\ parse(bytes, direction).kind = "Ok") =>
    /\ parse(bytes, direction).msg.inner.type \in {"Command", "Response"}
    /\ ProperSuffixOf(parse(bytes, direction).rest, bytes)

(* an iteration that goes on leaves a shorter buffer *)
IterationShortens ==
  (status = "loop" /\ status' = "loop") =>
    (ProperSuffixOf(bytes', bytes) /\ Len(msgs') = Len(msgs) + 1)

(* C15: every successful parse returns a message and a rest that is a proper
   suffix of the buffer (at least one octet consumed), every iteration of the
   loop of parse_bytes that continues leaves a shorter buffer, and the loop
   ends on every buffer, with an empty buffer or with an error. *)
C15_ConsumesAndTerminates ==
  /\ [](SuccessConsumes)
  /\ [][IterationShortens]_vars
  /\ [](status = "done" => bytes = <<>>)
  /\ (status = "parse") ~> (status \in {"done", "err"})

(* the loop returned a message from octets of unknown origin and stopped
   on an error with part of the buffer left *)
C15_Witness ==
  /\ status = "err"
  /\ ~sent.known
  /\ Len(msgs) >= 1
  /\ Len(bytes) > 0
  /\ ProperSuffixOf(bytes, input)

====
